---------------------------- MODULE Spec2Model ----------------------------
(***************************************************************************)
(* Model of the mail-merge send loop of this repository:                   *)
(*   src/app.py              the main page: upload, compose, send/draft    *)
(*   src/.pages/progress.py  the progress page: the same loop, run from    *)
(*                           parameters held in the session state          *)
(* Text is modelled as a sequence of one-character strings, a table cell   *)
(* as a tagged value (None, NaN or a string), a table row as a function    *)
(* from column names to cells, the table as a sequence of rows.  The Gmail *)
(* service is the environment: each provider call either returns or        *)
(* raises, and what it returns is drawn from a small set.                  *)
(***************************************************************************)
EXTENDS Integers, Sequences, FiniteSets, TLC

\* ------------------------------------------------------------------------
\* Bounds of the model
\* ------------------------------------------------------------------------
MaxRows == 2
MaxRuns == 2

\* ------------------------------------------------------------------------
\* Text and cells
\* ------------------------------------------------------------------------
WordChars == {"a", "b", "c", "e", "m", "n", "o", "t", "N", "0", "1"}
AddrChars == WordChars \cup {".", "-"}
SpaceChars == {" "}

NoneCell == [t |-> "none", s |-> <<>>]
NaNCell == [t |-> "nan", s |-> <<>>]
StrCell(s) == [t |-> "str", s |-> s]

\* str(value): None prints as "None", a float NaN as "nan"
PyStr(c) ==
  CASE c.t = "none" -> <<"N", "o", "n", "e">>
    [] c.t = "nan" -> <<"n", "a", "n">>
    [] OTHER -> c.s

\* str.lower() on the alphabet of the model
LowerChar(ch) == IF ch = "N" THEN "n" ELSE ch
Lower(s) == [i \in 1..Len(s) |-> LowerChar(s[i])]

\* str.strip(): drop leading and trailing whitespace
RECURSIVE LStrip(_)
LStrip(s) == IF s # <<>> /\ Head(s) \in SpaceChars THEN LStrip(Tail(s)) ELSE s
RECURSIVE RStrip(_)
RStrip(s) ==
  IF s # <<>> /\ s[Len(s)] \in SpaceChars THEN RStrip(SubSeq(s, 1, Len(s) - 1)) ELSE s
Strip(s) == RStrip(LStrip(s))

\* bool(value) of Python: None and the empty string are falsy, NaN is truthy
Truthy(c) == CASE c.t = "none" -> FALSE [] c.t = "nan" -> TRUE [] OTHER -> c.s # <<>>

\* pd.isna(value)
IsNa(c) == c.t \in {"none", "nan"}

\* x or y
PyOr(x, y) == IF Truthy(x) THEN x ELSE y

\* ------------------------------------------------------------------------
\* EMAIL_REGEX = [\w\.-]+@[\w\.-]+\.\w+ and extract_email
\* ------------------------------------------------------------------------
\* the end of the longest run of characters of cls that starts at i (i-1 if none)
RECURSIVE RunEnd(_, _, _)
RunEnd(s, i, cls) ==
  IF i <= Len(s) /\ s[i] \in cls THEN RunEnd(s, i + 1, cls) ELSE i - 1

\* the match of the regex that starts at position i, as its end position, or 0:
\* a run of address characters ending just before "@", then the longest
\* domain prefix that ends in "." followed by a run of word characters
MatchEndAt(s, i) ==
  LET End(le, de) ==
        LET at == le + 1
            dots == {d \in (at + 2)..(de - 1) : s[d] = "." /\ s[d + 1] \in WordChars}
            CMax(S) == CHOOSE x \in S : \A y \in S : y <= x
        IN IF le >= i /\ at <= Len(s) /\ s[at] = "@" /\ dots # {}
             THEN RunEnd(s, CMax(dots) + 1, WordChars)
             ELSE 0
  IN CHOOSE e \in UNION {{End(le, de) : de \in {RunEnd(s, le + 2, AddrChars)}} :
                          le \in {RunEnd(s, i, AddrChars)}} : TRUE

\* re.search scans the start positions from left to right and stops at the
\* first one where the pattern matches: that position, or 0 if there is none
RECURSIVE SearchFrom(_, _)
SearchFrom(s, i) ==
  IF i > Len(s) THEN 0
  ELSE IF MatchEndAt(s, i) > 0 THEN i
  ELSE SearchFrom(s, i + 1)

MatchStart(s) == SearchFrom(s, 1)

\* extract_email(value): the matched substring as a string cell, or None
extract_email(s) ==
  CHOOSE found \in {IF s = <<>> \/ b = 0
                      THEN NoneCell
                      ELSE StrCell(SubSeq(s, b, MatchEndAt(s, b))) : b \in {MatchStart(s)}} : TRUE

\* ------------------------------------------------------------------------
\* Inputs: the uploaded table and the run configuration
\* ------------------------------------------------------------------------
MinDelay == 30
MaxFetchAttempts == 5

\* for attempt in range(5): another lookup is made after n lookups
FetchAttemptsLeftInclusive(n) == n <= MaxFetchAttempts
FetchAttemptsLeft(n) == n < MaxFetchAttempts

Modes == {"New", "Reply", "Draft"}
Pages == {"app", "progress"}

sValid == <<"a", "@", "b", ".", "c">>
sNoAt == <<"a", "b">>
sTwo == <<"a", "@">>
EmailValues == {sValid, sNoAt, sTwo}

t0 == <<"t", "0">>
m0 == <<"m", "0">>
t1 == <<"t", "1">>
m1 == <<"m", "1">>
h1 == <<"e", "1">>
L1 == <<"N", "1">>

\* the rows of an uploaded CSV that has the two identifier columns: an
\* address with both identifiers blank, both filled or only the thread id
\* filled; a text without "@" in a row that carries identifiers; a
\* two-character text with "@", with and without identifiers
IdPairs ==
  {<<sValid, NaNCell, NaNCell>>, <<sValid, StrCell(t0), StrCell(m0)>>,
   <<sValid, StrCell(t0), NaNCell>>, <<sNoAt, StrCell(t0), StrCell(m0)>>,
   <<sTwo, NaNCell, NaNCell>>, <<sTwo, StrCell(t0), StrCell(m0)>>}

ColumnSets == {{"Email"}, {"Email", "Name", "ThreadId", "RfcMessageId"}}

RowsOver(cols) ==
  IF "ThreadId" \in cols
    THEN {[Email |-> StrCell(p[1]), Name |-> StrCell(<<"n">>),
           ThreadId |-> p[2], RfcMessageId |-> p[3]] : p \in IdPairs}
    ELSE {[Email |-> StrCell(e)] : e \in EmailValues}

TablesOver(cols) == UNION {[1..n -> RowsOver(cols)] : n \in 0..MaxRows}

\* the placeholders {x} of the subject and body templates: the default
\* templates greet {Name}; over a table without that column the user either
\* keeps them or writes templates without placeholders
PlaceholderSets == {{}, {"Name"}}
PlaceholdersOver(cols) == IF "Name" \in cols THEN {{"Name"}} ELSE PlaceholderSets

\* what messages().send / drafts().create(...).get("message", {}) hand back
ProviderReplies == {[id |-> m1, threadId |-> t1], [id |-> <<>>, threadId |-> <<>>]}

NoMsg == [id |-> <<>>, threadId |-> <<>>]
NoPayload == [built |-> FALSE, to |-> <<>>, inReplyTo |-> NoneCell,
              references |-> NoneCell, threadId |-> NoneCell]
NoCalls == [send |-> 0, draft |-> 0, modify |-> 0, modifyFailed |-> 0]
NoOtherCalls == [labels |-> 0, backup |-> 0]
NoSnapshot == [saved |-> FALSE, columns |-> {}, rows |-> <<>>]

\* ------------------------------------------------------------------------
\* State
\* ------------------------------------------------------------------------
VARIABLES
  page,               \* which script of the repository the session runs
  active,             \* the session holds mailmerge_params and active_csv
  send_mode, delay, placeholders,    \* the run configuration
  uploaded_columns,   \* the columns of the uploaded file
  columns, df,        \* the recipient table: its columns and its rows
  pc, idx,            \* position of the script and of its row loop
  label_id,           \* get_or_create_label's result
  sent_msg, message_id_header, attempt,   \* locals of the row being processed
  sent_count, skipped, errors, status_reports,
  ui_locked, last_saved,                  \* st.session_state
  report,             \* what the finished invocation showed the user
  run,                \* number of send invocations started so far
  calls, payloads,    \* per row: provider calls issued, payload handed over
  otherCalls,         \* provider calls outside the row loop
  sinceCall,          \* delay slept since the last send call (-1: no call yet)
  sentBefore          \* rows an earlier invocation sent or drafted

vars == <<page, active, send_mode, delay, placeholders, uploaded_columns, columns, df, pc, idx, label_id,
          sent_msg, message_id_header, attempt, sent_count, skipped, errors,
          status_reports, ui_locked, last_saved, report, run, calls, payloads,
          otherCalls, sinceCall, sentBefore>>

settings == <<page, active, send_mode, delay, placeholders>>
config == <<page, active, send_mode, delay, placeholders, uploaded_columns>>
rowLocals == <<sent_msg, message_id_header, attempt>>
tallies == <<sent_count, skipped, errors, status_reports>>

\* row.get(col, default)
RowGet(row, col, default) == IF col \in DOMAIN row THEN row[col] ELSE default

\* if col not in df.columns: df[col] = value; every row gets the value
WithColumnOverwrite(rows, col, value) ==
  [i \in 1..Len(rows) |->
     [c \in DOMAIN rows[i] \cup {col} |-> IF c = col THEN value ELSE rows[i][c]]]
WithColumn(rows, col, value) ==
  [i \in 1..Len(rows) |->
     IF col \in DOMAIN rows[i] THEN rows[i]
     ELSE [c \in DOMAIN rows[i] \cup {col} |-> IF c = col THEN value ELSE rows[i][c]]]

\* df.loc[i, col] = value
SetCellAllRows(rows, i, col, value) ==
  [j \in 1..Len(rows) |->
     [c \in DOMAIN rows[j] \cup {col} |-> IF c = col THEN value ELSE rows[j][c]]]
SetCell(rows, i, col, value) ==
  [rows EXCEPT ![i] = [c \in DOMAIN rows[i] \cup {col} |-> IF c = col THEN value ELSE rows[i][c]]]

\* template.format(**row) raises KeyError for a placeholder that is no column
FormatRaises(row) == ~(placeholders \subseteq DOMAIN row)

Init ==
  /\ page \in Pages
  /\ send_mode \in Modes
  /\ delay \in IF page = "app" THEN {MinDelay} ELSE {0, MinDelay}
  /\ columns \in ColumnSets
  /\ uploaded_columns = columns
  /\ placeholders \in PlaceholdersOver(columns)
  /\ active \in IF page = "app" THEN {FALSE} ELSE BOOLEAN
  /\ df \in IF page = "progress" /\ ~active THEN {<<>>} ELSE TablesOver(columns)
  /\ pc = "idle"
  /\ idx = 0
  /\ label_id = NoneCell
  /\ sent_msg = NoMsg
  /\ message_id_header = NoneCell
  /\ attempt = 0
  /\ sent_count = 0
  /\ skipped = <<>>
  /\ errors = <<>>
  /\ status_reports = <<>>
  /\ ui_locked = FALSE
  /\ last_saved = NoSnapshot
  /\ report = "none"
  /\ run = 0
  /\ calls = [i \in 1..Len(df) |-> NoCalls]
  /\ payloads = [i \in 1..Len(df) |-> NoPayload]
  /\ otherCalls = NoOtherCalls
  /\ sinceCall = -1
  /\ sentBefore = {}

\* ------------------------------------------------------------------------
\* The row loop, shared by both scripts
\* ------------------------------------------------------------------------
\* for idx, row in df.iterrows(): the loop visits every row of the table
LastRowBatchOfOne == IF Len(df) > 1 THEN 1 ELSE Len(df)
LastRow == Len(df)

\* the except clause of a row records the failure and the loop goes on with
\* the next row
NextAfterFailureAbort(i) == Len(df) + 1
NextAfterFailureRetry(i) == i
NextAfterFailure(i) == i + 1

\* ------------------------------------------------------------------------
\* src/app.py: the send handler
\* ------------------------------------------------------------------------
\* to_addr = extract_email(str(row.get("Email", "")).strip())
AppAddressPendingOnly(i) ==
  IF i \in sentBefore THEN NoneCell
  ELSE extract_email(Strip(PyStr(RowGet(df[i], "Email", StrCell(<<>>)))))
AppAddressUnchecked(i) == StrCell(Strip(PyStr(RowGet(df[i], "Email", StrCell(<<>>)))))
AppAddress(i) ==
  CHOOSE to_addr \in {extract_email(text) :
                        text \in {Strip(PyStr(RowGet(df[i], "Email", StrCell(<<>>))))}} : TRUE

\* df.loc[idx, "ThreadId"] = sent_msg.get("threadId", "") or df.loc[idx, "ThreadId"]
\* df.loc[idx, "RfcMessageId"] = message_id_header or df.loc[idx, "RfcMessageId"]
UpdatedRowHeaderOnly(row, msg, header) ==
  [row EXCEPT !["RfcMessageId"] = PyOr(header, row["RfcMessageId"])]
UpdatedRow(row, msg, header) ==
  [row EXCEPT !["ThreadId"] = PyOr(StrCell(msg.threadId), row["ThreadId"]),
              !["RfcMessageId"] = PyOr(header, row["RfcMessageId"])]

\* send_mode == "New Email" and label_id (app.py 424), send_mode.startswith
\* of New and then if label_id (progress.py 86-88)
LabelAppliesAnyMode == Truthy(label_id)
LabelApplies == send_mode = "New" /\ Truthy(label_id)

\* .execute() returns the created resource or raises; every exception is
\* caught by the same except clause, the rate-limit error (HTTP 429) included
\* if "ThreadId" not in df.columns: df["ThreadId"] = None, and the same for
\* "RfcMessageId" (app.py 349-353)
EnsuredColumnsWithStatus == {"Status", "ThreadId", "RfcMessageId"}
EnsuredColumns == {"ThreadId", "RfcMessageId"}

ProviderOutcomes == {"ok", "throttled"}

\* the payload of one row (app.py 368-386): threaded under Reply when the
\* printed ThreadId is neither empty nor "nan" and the printed RfcMessageId
\* is not empty, plain otherwise
AppPayload(row, to_addr) ==
  LET thread_id == Strip(PyStr(row["ThreadId"]))
      rfc_id == Strip(PyStr(row["RfcMessageId"]))
      plain == [built |-> TRUE, to |-> to_addr, inReplyTo |-> NoneCell,
                references |-> NoneCell, threadId |-> NoneCell]
  IN IF /\ send_mode = "Reply"
        /\ "ThreadId" \in DOMAIN row
        /\ "RfcMessageId" \in DOMAIN row
        /\ thread_id # <<>>
        /\ Lower(thread_id) # <<"n", "a", "n">>
        /\ rfc_id # <<>>
       THEN [built |-> TRUE, to |-> to_addr, inReplyTo |-> StrCell(rfc_id),
             references |-> StrCell(rfc_id), threadId |-> StrCell(thread_id)]
       ELSE plain

\* the click on "Send Emails / Save Drafts" up to the row loop (app.py 335-357)
AppSendClicked ==
  /\ page = "app"
  /\ pc = "idle"
  /\ run < MaxRuns
  /\ run' = run + 1
  /\ ui_locked' = TRUE
  /\ \E lid \in {NoneCell, StrCell(L1)} : label_id' = lid
  /\ otherCalls' = [labels |-> 1, backup |-> 0]
  /\ sent_count' = 0
  /\ skipped' = <<>>
  /\ errors' = <<>>
  /\ status_reports' = <<>>
  /\ columns' = columns \cup EnsuredColumns
  /\ df' = WithColumn(WithColumn(df, "ThreadId", NoneCell), "RfcMessageId", NoneCell)
  /\ idx' = 1
  /\ pc' = "row"
  /\ calls' = [i \in 1..Len(df) |-> NoCalls]
  /\ payloads' = [i \in 1..Len(df) |-> NoPayload]
  /\ sinceCall' = -1
  /\ report' = "none"
  /\ UNCHANGED <<config, rowLocals, last_saved, sentBefore>>

\* one row up to the send or draft call (app.py 358-395, 439-445)
AppRow ==
  /\ page = "app"
  /\ pc = "row"
  /\ idx <= LastRow
  /\ \E row \in {df[idx]}, to_addr \in {AppAddress(idx)} :
        IF to_addr = NoneCell
          THEN \* no address: skipped.append, progress, continue
               /\ skipped' = Append(skipped, idx)
               /\ idx' = idx + 1
               /\ UNCHANGED <<pc, errors, status_reports, sent_msg, calls, payloads, sinceCall>>
          ELSE IF FormatRaises(row)
          THEN \* subject_template.format(**row) raises inside the row's try
               /\ errors' = Append(errors, [idx |-> idx, to |-> to_addr.s, kind |-> "KeyError"])
               /\ idx' = NextAfterFailure(idx)
               /\ UNCHANGED <<pc, skipped, status_reports, sent_msg, calls, payloads, sinceCall>>
          ELSE \E out \in ProviderOutcomes, reply \in ProviderReplies :
               /\ payloads' = [payloads EXCEPT ![idx] = AppPayload(row, to_addr.s)]
               /\ calls' = IF send_mode = "Draft"
                             THEN [calls EXCEPT ![idx].draft = @ + 1]
                             ELSE [calls EXCEPT ![idx].send = @ + 1]
               /\ sinceCall' = 0
               /\ IF out = "ok"
                    THEN /\ sent_msg' = reply
                         /\ status_reports' =
                              Append(status_reports,
                                     [idx |-> idx, to |-> to_addr.s,
                                      status |-> IF send_mode = "Draft" THEN "Draft saved" ELSE "Sent"])
                         /\ pc' = "delay"
                         /\ UNCHANGED <<idx, errors, skipped>>
                    ELSE /\ errors' = Append(errors, [idx |-> idx, to |-> to_addr.s, kind |-> out])
                         /\ idx' = NextAfterFailure(idx)
                         /\ UNCHANGED <<pc, skipped, status_reports, sent_msg>>
  /\ UNCHANGED <<config, columns, df, label_id, message_id_header, attempt, sent_count,
                 ui_locked, last_saved, report, run, otherCalls, sentBefore>>

\* time.sleep(random.uniform(delay * 0.9, delay * 1.1)) (app.py 397-403)
JitterChoices(d) == {(9 * d) \div 10, (11 * d) \div 10}

AppDelay ==
  /\ page = "app"
  /\ pc = "delay"
  /\ IF delay > 0
       THEN \E d \in JitterChoices(delay) : sinceCall' = d
       ELSE UNCHANGED sinceCall
  /\ message_id_header' = NoneCell
  /\ attempt' = 0
  /\ pc' = "fetch"
  /\ UNCHANGED <<config, columns, df, idx, label_id, sent_msg, tallies, ui_locked,
                 last_saved, report, run, calls, payloads, otherCalls, sentBefore>>

\* one attempt of the Message-ID lookup (app.py 404-422)
AppFetchAttempt ==
  /\ page = "app"
  /\ pc = "fetch"
  /\ sent_msg.id # <<>>
  /\ FetchAttemptsLeft(attempt)
  /\ message_id_header = NoneCell
  /\ attempt' = attempt + 1
  /\ \E found \in BOOLEAN :
       message_id_header' = IF found THEN StrCell(h1) ELSE NoneCell
  /\ UNCHANGED <<config, columns, df, pc, idx, label_id, sent_msg, tallies, ui_locked,
                 last_saved, report, run, calls, payloads, otherCalls, sinceCall,
                 sentBefore>>

\* the label, the table update and the count of one sent row (app.py 424-445);
\* the row's locals are not read again before the next row assigns them, so
\* the model clears them here
AppFinishRow ==
  /\ page = "app"
  /\ pc = "fetch"
  /\ sent_msg.id = <<>> \/ ~FetchAttemptsLeft(attempt) \/ message_id_header # NoneCell
  /\ IF LabelApplies /\ sent_msg.id # <<>>
       THEN \E labelled \in BOOLEAN :
              calls' = [calls EXCEPT ![idx].modify = @ + 1,
                                     ![idx].modifyFailed = IF labelled THEN @ ELSE @ + 1]
       ELSE UNCHANGED calls
  /\ df' = [df EXCEPT ![idx] = UpdatedRow(df[idx], sent_msg, message_id_header)]
  /\ sent_count' = sent_count + 1
  /\ idx' = idx + 1
  /\ pc' = "row"
  /\ sent_msg' = NoMsg
  /\ message_id_header' = NoneCell
  /\ attempt' = 0
  /\ UNCHANGED <<config, columns, label_id, skipped, errors, status_reports,
                 ui_locked, last_saved, report, run, payloads, otherCalls, sinceCall,
                 sentBefore>>

\* df.to_csv / pd.read_csv: a cell is written as its text, None and NaN as
\* the empty field; an empty field and the NA spellings are read back as NaN
NaTexts == {<<>>, <<"n", "a", "n">>, <<"N", "o", "n", "e">>}
to_csv(c) == IF IsNa(c) THEN <<>> ELSE c.s
read_csv(text) == IF text \in NaTexts THEN NaNCell ELSE StrCell(text)
CsvOf(rows) == [i \in 1..Len(rows) |-> [c \in DOMAIN rows[i] |-> to_csv(rows[i][c])]]
TableOf(csv) == [i \in 1..Len(csv) |-> [c \in DOMAIN csv[i] |-> read_csv(csv[i][c])]]

\* the file st.session_state["last_saved_csv"] then points to
SnapshotOfUpload ==
  [saved |-> TRUE, columns |-> columns,
   rows |-> CsvOf([i \in 1..Len(df) |->
                    [c \in DOMAIN df[i] |->
                       IF c \in {"ThreadId", "RfcMessageId"} THEN NoneCell ELSE df[i][c]]])]
Snapshot == [saved |-> TRUE, columns |-> columns, rows |-> CsvOf(df)]

\* st.session_state["ui_locked"] = False, after the summary (app.py 487) and
\* at the start of the fatal-error handler (app.py 493)
LockAfterCompletionOnly(fatal) == IF fatal THEN ui_locked ELSE FALSE
LockAfter(fatal) == FALSE

\* what the fatal-error handler shows: st.error with the exception, then
\* st.success when the partial snapshot is written and st.warning when it is
\* not (app.py 489-512)
FatalReportAsSummary(partialOk) == IF partialOk THEN "fatal_partial_saved" ELSE "summary"
FatalReport(partialOk) == IF partialOk THEN "fatal_partial_saved" ELSE "fatal_not_saved"

\* after the row loop: snapshot, backup mail, summary, unlock; a failure of
\* the snapshot lands in the fatal-error handler (app.py 447-512)
AppSave ==
  /\ page = "app"
  /\ pc = "row"
  /\ idx > LastRow
  /\ \E csvOk \in BOOLEAN, partialOk \in BOOLEAN :
       IF csvOk
         THEN /\ last_saved' = Snapshot
              /\ otherCalls' = [otherCalls EXCEPT !.backup = @ + 1]
              /\ report' = "summary"
         ELSE /\ last_saved' = IF partialOk THEN Snapshot ELSE last_saved
              /\ report' = FatalReport(partialOk)
              /\ UNCHANGED otherCalls
  /\ ui_locked' = LockAfter(report' # "summary")
  /\ pc' = "done"
  /\ UNCHANGED <<config, columns, df, idx, label_id, rowLocals, tallies, run, calls,
                 payloads, sinceCall, sentBefore>>

\* an exception raised between two rows by a statement outside the row's try
\* (st.progress, the skip branch, the except clause itself: app.py 356-363,
\* 441-445) leaves the loop for the fatal-error handler (app.py 489-512)
AppFatal ==
  /\ page = "app"
  /\ pc = "row"
  /\ \E partialOk \in BOOLEAN :
       /\ last_saved' = IF partialOk THEN Snapshot ELSE last_saved
       /\ report' = FatalReport(partialOk)
  /\ ui_locked' = LockAfter(TRUE)
  /\ pc' = "interrupted"
  /\ UNCHANGED <<config, columns, df, idx, label_id, rowLocals, tallies, run, calls,
                 payloads, otherCalls, sinceCall, sentBefore>>

\* the user uploads the snapshot again: a fresh script run over the saved
\* table (app.py 139-194)
Reupload ==
  /\ page = "app"
  /\ pc = "done"
  /\ run < MaxRuns
  /\ last_saved.saved
  /\ uploaded_columns' = last_saved.columns
  /\ columns' = last_saved.columns
  /\ df' = TableOf(last_saved.rows)
  /\ sentBefore' = sentBefore \cup {status_reports[k].idx : k \in 1..Len(status_reports)}
  /\ pc' = "idle"
  /\ idx' = 0
  /\ label_id' = NoneCell
  /\ sent_msg' = NoMsg
  /\ message_id_header' = NoneCell
  /\ attempt' = 0
  /\ sent_count' = 0
  /\ skipped' = <<>>
  /\ errors' = <<>>
  /\ status_reports' = <<>>
  /\ report' = "none"
  /\ calls' = [i \in 1..Len(df) |-> NoCalls]
  /\ payloads' = [i \in 1..Len(df) |-> NoPayload]
  /\ otherCalls' = NoOtherCalls
  /\ sinceCall' = -1
  /\ UNCHANGED <<settings, ui_locked, last_saved, run>>

\* ------------------------------------------------------------------------
\* src/.pages/progress.py
\* ------------------------------------------------------------------------
\* without mailmerge_params or active_csv the page stops (progress.py 14-17)
ProgressStop ==
  /\ page = "progress"
  /\ pc = "idle"
  /\ ~active
  /\ pc' = "stopped"
  /\ UNCHANGED <<config, columns, df, idx, label_id, rowLocals, tallies, ui_locked,
                 last_saved, report, run, calls, payloads, otherCalls, sinceCall,
                 sentBefore>>

\* reading the parameters and the table, the label lookup (progress.py 19-68)
ProgressStart ==
  /\ page = "progress"
  /\ pc = "idle"
  /\ active
  /\ run' = run + 1
  /\ \E lid \in {NoneCell, StrCell(L1)} : label_id' = lid
  /\ otherCalls' = [labels |-> 1, backup |-> 0]
  /\ sent_count' = 0
  /\ errors' = <<>>
  /\ status_reports' = <<>>
  /\ idx' = 1
  /\ pc' = "row"
  /\ UNCHANGED <<config, columns, df, rowLocals, skipped, ui_locked,
                 last_saved, report, calls, payloads, sinceCall, sentBefore>>

\* message["To"], message["Subject"] = to_addr unpacks the address string:
\* it raises ValueError unless the string has exactly two characters
UnpackRaises(to_addr) == Len(to_addr) # 2

ProgressPayload(to_addr, thread) ==
  [built |-> TRUE, to |-> <<to_addr[1]>>, inReplyTo |-> NoneCell,
   references |-> NoneCell, threadId |-> thread]

\* one row of the loop up to the count (progress.py 70-115, 120-122)
ProgressRow ==
  /\ page = "progress"
  /\ pc = "row"
  /\ idx <= LastRow
  /\ \E row \in {df[idx]},
        to_addr \in {Strip(PyStr(RowGet(df[idx], "Email", StrCell(<<>>))))},
        thread_id \in {RowGet(df[idx], "ThreadId", NoneCell)} :
     LET fail(kind) ==
           /\ errors' = Append(errors, [idx |-> idx, to |-> to_addr, kind |-> kind])
           /\ idx' = NextAfterFailure(idx)
           /\ UNCHANGED <<pc, sent_count, status_reports, df, columns>>
     IN IF to_addr = <<>> \/ ~(\E k \in 1..Len(to_addr) : to_addr[k] = "@")
          THEN \* continue
               /\ idx' = idx + 1
               /\ UNCHANGED <<pc, errors, sent_count, status_reports, df, columns, calls,
                              payloads, sinceCall>>
          ELSE IF FormatRaises(row)
          THEN fail("KeyError") /\ UNCHANGED <<calls, payloads, sinceCall>>
          ELSE IF UnpackRaises(to_addr)
          THEN fail("ValueError") /\ UNCHANGED <<calls, payloads, sinceCall>>
          ELSE IF send_mode = "Reply" /\ (IsNa(thread_id) \/ Strip(PyStr(thread_id)) = <<>>)
          THEN \* "Skipping: missing ThreadId", continue
               /\ idx' = idx + 1
               /\ UNCHANGED <<pc, errors, sent_count, status_reports, df, columns, calls,
                              payloads, sinceCall>>
          ELSE \E out \in ProviderOutcomes, reply \in ProviderReplies, labelled \in BOOLEAN :
               LET labelStep == LabelApplies /\ out = "ok"
                   labelCall == labelStep /\ reply.id # <<>>
                   thread == IF send_mode = "Reply" THEN StrCell(PyStr(thread_id)) ELSE NoneCell
               IN
               /\ payloads' = [payloads EXCEPT ![idx] = ProgressPayload(to_addr, thread)]
               /\ calls' = [calls EXCEPT
                              ![idx].send = IF send_mode = "Draft" THEN @ ELSE @ + 1,
                              ![idx].draft = IF send_mode = "Draft" THEN @ + 1 ELSE @,
                              ![idx].modify = IF labelCall THEN @ + 1 ELSE @,
                              ![idx].modifyFailed = IF labelCall /\ ~labelled THEN @ + 1 ELSE @]
               /\ sinceCall' = 0
               /\ IF out # "ok"
                    THEN fail(out)
                    ELSE IF labelStep /\ (~labelled \/ reply.id = <<>>)
                    THEN \* modify raises, or sent_msg["id"] is a KeyError
                         fail("label")
                    ELSE /\ IF send_mode = "Draft"
                              THEN /\ columns' = columns \cup {"DraftId"}
                                   /\ df' = SetCell(WithColumn(df, "DraftId", NaNCell),
                                                    idx, "DraftId", StrCell(reply.id))
                              ELSE /\ columns' = columns \cup {"ThreadId", "RfcMessageId"}
                                   /\ df' = SetCell(SetCell(
                                              WithColumn(WithColumn(df, "ThreadId", NaNCell),
                                                         "RfcMessageId", NaNCell),
                                              idx, "ThreadId", StrCell(reply.threadId)),
                                              idx, "RfcMessageId", StrCell(reply.id))
                         /\ sent_count' = sent_count + 1
                         /\ status_reports' =
                              Append(status_reports,
                                     [idx |-> idx, to |-> to_addr,
                                      status |-> IF send_mode = "Draft" THEN "Draft saved" ELSE "Sent"])
                         /\ pc' = "delay"
                         /\ UNCHANGED <<idx, errors>>
  /\ UNCHANGED <<config, label_id, rowLocals, skipped, ui_locked,
                 last_saved, report, run, otherCalls, sentBefore>>

\* the sleep that ends a counted row (progress.py 117-118)
ProgressDelay ==
  /\ page = "progress"
  /\ pc = "delay"
  /\ IF delay > 0 /\ send_mode # "Draft"
       THEN \E d \in JitterChoices(delay) : sinceCall' = d
       ELSE UNCHANGED sinceCall
  /\ idx' = idx + 1
  /\ pc' = "row"
  /\ UNCHANGED <<config, columns, df, label_id, rowLocals, tallies, ui_locked,
                 last_saved, report, run, calls, payloads, otherCalls, sentBefore>>

\* snapshot, summary and backup mail; a failing to_csv ends the script with
\* the exception (progress.py 124-158)
ProgressSave ==
  /\ page = "progress"
  /\ pc = "row"
  /\ idx > LastRow
  /\ \E csvOk \in BOOLEAN :
       IF csvOk
         THEN /\ last_saved' = Snapshot
              /\ otherCalls' = [otherCalls EXCEPT !.backup = @ + 1]
              /\ report' = "summary"
              /\ pc' = "done"
         ELSE /\ report' = "exception"
              /\ pc' = "crashed"
              /\ UNCHANGED <<last_saved, otherCalls>>
  /\ UNCHANGED <<config, columns, df, idx, label_id, rowLocals, tallies, ui_locked,
                 run, calls, payloads, sinceCall, sentBefore>>

Next ==
  \/ AppSendClicked
  \/ AppRow
  \/ AppDelay
  \/ AppFetchAttempt
  \/ AppFinishRow
  \/ AppSave
  \/ AppFatal
  \/ ProgressStop
  \/ ProgressStart
  \/ ProgressRow
  \/ ProgressDelay
  \/ ProgressSave

Spec == Init /\ [][Next]_vars

\* each script runs in one thread from its first statement to its last: the
\* interpreter always takes the next step; no loop of either script tests an
\* identifier column, and the liveness check runs
\* over the uploads that have the Email column only
InitLive == Init /\ columns = {"Email"}

SpecLive == InitLive /\ [][Next]_vars /\ WF_vars(Next)

\* app.py run again on the snapshot it saved: one upload with the Email
\* column only, then up to MaxRuns send invocations, each running to its end
InitResume ==
  /\ Init
  /\ page = "app"
  /\ columns = {"Email"}
  /\ placeholders = {}
  /\ \A i \in 1..Len(df) : df[i]["Email"].s # sTwo

NextResume ==
  \/ AppSendClicked
  \/ AppRow
  \/ AppDelay
  \/ AppFetchAttempt
  \/ AppFinishRow
  \/ AppSave
  \/ Reupload

SpecResume == InitResume /\ [][NextResume]_vars

\* ------------------------------------------------------------------------
\* What the lists and counters of a run say about a row
\* ------------------------------------------------------------------------
Rows == 1..Len(df)
Errored(i) == \E k \in 1..Len(errors) : errors[k].idx = i
Throttled(i) == \E k \in 1..Len(errors) : errors[k].idx = i /\ errors[k].kind = "throttled"
Reported(i) == \E k \in 1..Len(status_reports) : status_reports[k].idx = i
SkippedRow(i) == \E k \in 1..Len(skipped) : skipped[k] = i
SendCalls(i) == calls[i].send + calls[i].draft
Finished == pc \in {"done", "crashed"}

\* the state of a row in the vocabulary of the specification
Outcome(i) ==
  IF Errored(i) THEN "Error"
  ELSE IF Reported(i) THEN (IF send_mode = "Draft" THEN "Draft" ELSE "Sent")
  ELSE IF (page = "app" /\ SkippedRow(i)) \/ (page = "progress" /\ i < idx) THEN "Skipped"
  ELSE "Pending"

\* the Email cell of the row holds an address EMAIL_REGEX finds
HasAddress(row) ==
  extract_email(Strip(PyStr(RowGet(row, "Email", StrCell(<<>>))))) # NoneCell

\* an identifier cell that is missing or blank
Blank(c) == IsNa(c) \/ Strip(c.s) = <<>>
IdOf(row, col) == RowGet(row, col, NoneCell)
ThreadSet(i) == IdOf(df[i], "ThreadId") = StrCell(t1)
RfcSet(i) == IdOf(df[i], "RfcMessageId") \in {StrCell(h1), StrCell(m1)}
PlainPayload(p) == p.threadId = NoneCell /\ p.inReplyTo = NoneCell /\ p.references = NoneCell

\* ------------------------------------------------------------------------
\* C1
\* ------------------------------------------------------------------------
\* C1 (as claimed): a later invocation on the persisted table issues no send
\* or create-draft call for a row an earlier invocation sent or drafted.
C1_IdempotentResume ==
  \A i \in sentBefore : i \in Rows => SendCalls(i) = 0

\* C1 (amended): resume is not idempotent. A later invocation on the
\* persisted table issues exactly one send or create-draft call for every
\* row with an extractable address, the rows already sent or drafted by an
\* earlier invocation included.
C1_ResumeReprocesses ==
  (run >= 2 /\ pc = "done") =>
     /\ \A i \in Rows : HasAddress(df[i]) => SendCalls(i) = 1
     /\ \A i \in sentBefore : i \in Rows /\ HasAddress(df[i])

C1_Witness ==
  run = 2 /\ pc = "done" /\ \E i \in sentBefore : calls[i].send = 1

\* ------------------------------------------------------------------------
\* C2
\* ------------------------------------------------------------------------
\* C2 (as claimed): under New or Reply with BatchSize = k and more than k
\* rows to process, an invocation moves exactly the first k rows away from
\* Pending and issues no provider call for the others.
C2_BatchBound ==
  \A k \in 1..MaxRows :
    (pc = "done" /\ send_mode # "Draft" /\ Len(df) > k) =>
       /\ Cardinality({i \in Rows : Outcome(i) # "Pending"}) = k
       /\ \A i \in (k + 1)..Len(df) : SendCalls(i) = 0

\* C2 (amended): there is no batch bound. An invocation that completes has
\* moved every row of the table away from Pending, in table order, whatever
\* the number of rows.
C2_WholeTableProcessed ==
  pc = "done" => (idx = Len(df) + 1 /\ \A i \in Rows : Outcome(i) # "Pending")

C2_Witness ==
  pc = "done" /\ send_mode # "Draft" /\ Len(df) = MaxRows /\ SendCalls(MaxRows) = 1

\* ------------------------------------------------------------------------
\* C3
\* ------------------------------------------------------------------------
\* C3: when the dispatch of row i fails, the failure is recorded once, for
\* row i, and every later row is still attempted and reaches a terminal
\* outcome in the same invocation.
C3_FaultIsolation ==
  Finished =>
    /\ Len(errors) = Cardinality({i \in Rows : Errored(i)})
    /\ \A i \in Rows : \A j \in Rows :
         (Errored(i) /\ i < j) =>
            /\ Outcome(j) # "Pending"
            /\ (page = "app" /\ HasAddress(df[j])) => (SendCalls(j) = 1 \/ Errored(j))

C3_Witness ==
  Finished /\ Len(df) >= 2 /\ Errored(1) /\ SendCalls(1) = 1 /\ Reported(2)

\* ------------------------------------------------------------------------
\* C4
\* ------------------------------------------------------------------------
\* C4: a row whose Email field holds no extractable address gets no send or
\* create-draft call, is never counted as sent and never recorded as an error.
C4_NoAddressSkipped ==
  \A i \in Rows :
    ~HasAddress(df[i]) => (SendCalls(i) = 0 /\ ~Errored(i) /\ ~Reported(i))

\* ------------------------------------------------------------------------
\* C5
\* ------------------------------------------------------------------------
\* C5 (as claimed): after an invocation of app.py the ThreadId and the
\* RfcMessageId of every row without a valid address are empty.
C5_SkippedIdsEmpty ==
  (page = "app" /\ pc = "done") =>
     \A i \in Rows :
       ~HasAddress(df[i]) =>
          (Blank(IdOf(df[i], "ThreadId")) /\ Blank(IdOf(df[i], "RfcMessageId")))

\* C5 (amended): no step of an invocation of app.py changes the ThreadId or
\* the RfcMessageId of a row without a valid address: they stay what the
\* upload held (empty when it held none).
C5_SkippedIdsUnchanged ==
  [][page = "app" =>
       \A i \in Rows :
         ~HasAddress(df[i]) =>
            /\ IdOf(df'[i], "ThreadId") = IdOf(df[i], "ThreadId")
            /\ IdOf(df'[i], "RfcMessageId") = IdOf(df[i], "RfcMessageId")]_vars

C5_Witness ==
  /\ page = "app"
  /\ pc = "done"
  /\ \E i \in Rows : \E j \in Rows :
       /\ ~HasAddress(df[i]) /\ SkippedRow(i) /\ df[i]["ThreadId"] = StrCell(t0)
       /\ Reported(j) /\ ThreadSet(j)

\* ------------------------------------------------------------------------
\* C6
\* ------------------------------------------------------------------------
\* the row passes every check a script makes before it builds the message
Dispatchable(i) ==
  IF page = "app"
    THEN HasAddress(df[i]) /\ ~FormatRaises(df[i])
    ELSE LET a == Strip(PyStr(RowGet(df[i], "Email", StrCell(<<>>))))
         IN (\E k \in 1..Len(a) : a[k] = "@") /\ ~FormatRaises(df[i]) /\ ~UnpackRaises(a)

\* C6: under Reply, a row whose ThreadId or RfcMessageId is missing or blank
\* is dispatched with a New-style payload, and the send call is still issued.
C6_ReplyDegrades ==
  \A i \in Rows :
    ( /\ send_mode = "Reply"
      /\ pc \notin {"idle", "stopped"}
      /\ i <= idx
      /\ ~Reported(i) \/ (page = "app" /\ i = idx)
      /\ Blank(IdOf(df[i], "ThreadId")) \/ Blank(IdOf(df[i], "RfcMessageId")) ) =>
        /\ payloads[i].built => PlainPayload(payloads[i])
        /\ (i < idx /\ Dispatchable(i)) => SendCalls(i) = 1

C8_ThrottleRetried ==
  \A i \in Rows : Throttled(i) => SendCalls(i) >= 2

\* C8 (amended): a send call that fails with a throttling signal is not
\* retried: the row is recorded as an error after that single call, and
\* processing continues with the next row.
C8_NoRetry ==
  \A i \in Rows :
    /\ SendCalls(i) <= 1
    /\ Throttled(i) => (SendCalls(i) = 1 /\ idx > i)
    /\ (Throttled(i) /\ Finished /\ i < Len(df)) => Outcome(i + 1) # "Pending"

C8_Witness ==
  Finished /\ \E i \in Rows : Throttled(i) /\ i < Len(df) /\ Reported(i + 1)

\* ------------------------------------------------------------------------
\* C9
\* ------------------------------------------------------------------------
\* C9: a failure of the label-apply call never makes the row an error; the
\* row is still counted as sent.
C9_LabelBestEffort ==
  \A i \in Rows :
    calls[i].modifyFailed >= 1 => (~Errored(i) /\ (i < idx => Reported(i)))

\* ------------------------------------------------------------------------
\* C10
\* ------------------------------------------------------------------------
\* C10: under New or Reply with a positive delay, every send call that
\* follows an earlier send call of the invocation comes after a delay sleep
\* of at least 0.9 x delay.
C10_DelayBetweenSends ==
  [][( /\ send_mode # "Draft"
       /\ delay > 0
       /\ sinceCall # -1
       /\ \E i \in Rows : i \in DOMAIN calls' /\ calls'[i].send > calls[i].send ) =>
         10 * sinceCall >= 9 * delay]_vars

\* ------------------------------------------------------------------------
\* C11
\* ------------------------------------------------------------------------
\* no row of the table passes the address test of the script
NothingToDo ==
  \A i \in Rows :
    IF page = "app"
      THEN ~HasAddress(df[i])
      ELSE LET a == Strip(PyStr(RowGet(df[i], "Email", StrCell(<<>>))))
           IN ~(\E k \in 1..Len(a) : a[k] = "@")

\* C11 (as claimed): an invocation over a table with no row to process makes
\* no provider call: no label lookup, no send, no draft, no backup message.
C11_NothingToDoNoCalls ==
  (run >= 1 /\ NothingToDo) =>
     /\ otherCalls.labels = 0
     /\ otherCalls.backup = 0
     /\ \A i \in Rows : SendCalls(i) = 0

\* C11 (amended): an invocation over a table with no row to process, the
\* empty table included, issues no send, create-draft or label-apply call
\* for any row, but it still makes the label lookup once and, when the
\* snapshot is written, sends the backup message.
C11_LookupAndBackupAnyway ==
  (pc = "done" /\ NothingToDo) =>
     /\ \A i \in Rows : SendCalls(i) = 0 /\ calls[i].modify = 0
     /\ otherCalls.labels = 1
     /\ otherCalls.backup = IF report = "summary" THEN 1 ELSE 0

C11_Witness ==
  /\ pc = "done"
  /\ NothingToDo
  /\ Len(df) = 0
  /\ otherCalls.labels = 1
  /\ otherCalls.backup = 1

Ended == pc \in {"done", "crashed", "interrupted"}

\* C13: an invocation that could write neither the full nor the partial
\* snapshot never ends with the success summary or with a warning alone: it
\* ends with the fatal-error report of app.py or with the uncaught exception
\* of progress.py; and the success summary is shown only over a written
\* snapshot of the table.
C13_PersistenceFailureReported ==
  /\ (Ended /\ ~last_saved.saved) => report \in {"fatal_not_saved", "exception"}
  /\ report = "summary" => (last_saved.saved /\ last_saved.rows = CsvOf(df))

C13_Witness ==
  /\ page = "app"
  /\ pc = "done"
  /\ idx > Len(df)
  /\ sent_count >= 1
  /\ ~last_saved.saved
  /\ report = "fatal_not_saved"

\* ------------------------------------------------------------------------
\* C14
\* ------------------------------------------------------------------------
\* C14: every invocation terminates, whatever provider calls fail: the row
\* loop is always left and a final report is produced (the summary, or the
\* fatal-error report or exception when the snapshot cannot be written or an
\* exception leaves the loop); no row gets more than one send or create-draft
\* call, more than one label-apply call or more than MaxFetchAttempts lookups.
C14_Terminates ==
  /\ (pc = "row") ~> (Ended /\ report # "none")
  /\ [](\A i \in Rows : SendCalls(i) <= 1 /\ calls[i].modify <= 1)
  /\ [](attempt <= MaxFetchAttempts)

C14_Witness ==
  /\ pc = "done"
  /\ report = "summary"
  /\ Len(df) = MaxRows
  /\ \A i \in Rows : Throttled(i) /\ SendCalls(i) = 1

\* ------------------------------------------------------------------------
\* C15
\* ------------------------------------------------------------------------
\* C15: a row with an address whose templates name a column the table does
\* not have is rendered and dispatched, and is not recorded as an error.
C15_RenderNeverRaises ==
  \A i \in Rows :
    (i < idx /\ HasAddress(df[i]) /\ FormatRaises(df[i])) =>
       (SendCalls(i) = 1 /\ ~Errored(i))

C17_ReplyThreaded ==
  [][\A i \in Rows :
       ( /\ send_mode = "Reply"
         /\ ~payloads[i].built
         /\ payloads'[i].built
         /\ ~Blank(IdOf(df[i], "ThreadId"))
         /\ ~Blank(IdOf(df[i], "RfcMessageId")) ) =>
           /\ payloads'[i].threadId = df[i]["ThreadId"]
           /\ payloads'[i].inReplyTo = df[i]["RfcMessageId"]
           /\ payloads'[i].references = df[i]["RfcMessageId"]]_vars

\* ------------------------------------------------------------------------
\* C18
\* ------------------------------------------------------------------------
\* two identifier cells hold the same identifier, or both hold none
SameId(a, b) == a = b \/ (Blank(a) /\ Blank(b))

\* C18: every entry of the error list names a row and the address the row
\* was processed with, and a step changes the ThreadId or the RfcMessageId
\* of a row only when it counts that row as sent or drafted: the identifiers
\* of a row recorded as an error are what they were before the invocation.
C18_IdsOnlyOnSuccess ==
  [][/\ \A k \in 1..Len(errors') :
          /\ errors'[k].idx \in Rows
          /\ errors'[k].kind # ""
          /\ errors'[k].to =
               IF page = "app"
                 THEN AppAddress(errors'[k].idx).s
                 ELSE Strip(PyStr(RowGet(df[errors'[k].idx], "Email", StrCell(<<>>))))
     /\ \A i \in Rows :
          ( \/ ~SameId(IdOf(df'[i], "ThreadId"), IdOf(df[i], "ThreadId"))
            \/ ~SameId(IdOf(df'[i], "RfcMessageId"), IdOf(df[i], "RfcMessageId")) ) =>
              (Reported(i)' /\ ~Errored(i)')]_vars

C18_Witness ==
  /\ Finished
  /\ \E i \in Rows : \E j \in Rows :
       /\ Errored(i)
       /\ SendCalls(i) = 1
       /\ IdOf(df[i], "ThreadId") = StrCell(t0)
       /\ IdOf(df[i], "RfcMessageId") = StrCell(m0)
       /\ Reported(j)
       /\ ThreadSet(j)

\* ------------------------------------------------------------------------
\* C19
\* ------------------------------------------------------------------------
\* C19: a Draft invocation issues no send call for any row and, once it has
\* ended, has issued exactly one create-draft call for every row that has an
\* address and whose templates render.
C19_DraftRouting ==
  send_mode = "Draft" =>
     /\ \A i \in Rows : calls[i].send = 0
     /\ Finished =>
          \A i \in Rows :
            (HasAddress(df[i]) /\ ~FormatRaises(df[i])) => calls[i].draft = 1

\* ------------------------------------------------------------------------
\* C20
\* ------------------------------------------------------------------------
\* C20: under Draft no delay sleep is performed after a create-draft call.
C20_DraftNoDelay ==
  send_mode = "Draft" => sinceCall <= 0

\* ------------------------------------------------------------------------
\* C21
\* ------------------------------------------------------------------------
\* the send or create-draft call of row i raised
CallFailed(i) ==
  \E k \in 1..Len(errors) : errors[k].idx = i /\ errors[k].kind \in ProviderOutcomes

\* C21: a label-apply call is issued for a row only under New, at most once,
\* after the row's single send call returned; under Reply and under Draft no
\* label-apply call is issued for any row.
C21_LabelOnlyAfterNewSend ==
  \A i \in Rows :
    /\ send_mode # "New" => calls[i].modify = 0
    /\ calls[i].modify >= 1 =>
         /\ calls[i].modify = 1
         /\ calls[i].send = 1
         /\ calls[i].draft = 0
         /\ ~CallFailed(i)

C21_Witness ==
  /\ send_mode = "New"
  /\ Len(df) >= 2
  /\ calls[1].send = 1 /\ CallFailed(1) /\ calls[1].modify = 0
  /\ calls[2].send = 1 /\ Reported(2) /\ calls[2].modify = 1

\* ------------------------------------------------------------------------
\* C22
\* ------------------------------------------------------------------------
\* C22: the Message-ID lookup of a row makes at most 5 attempts; after a
\* fifth attempt without a header the lookup stops and the row is finished
\* as sent: it is counted, it stays out of the error list and its
\* RfcMessageId is left as it was.
C22_LookupBounded ==
  [][/\ attempt' <= 5
     /\ (page = "app" /\ pc = "fetch" /\ attempt >= 5 /\ message_id_header = NoneCell) =>
          /\ pc' = "row"
          /\ attempt' = 0
          /\ sent_count' = sent_count + 1
          /\ errors' = errors
          /\ Reported(idx) /\ ~Errored(idx)
          /\ IdOf(df'[idx], "RfcMessageId") = IdOf(df[idx], "RfcMessageId")]_vars

C22_Witness ==
  /\ page = "app"
  /\ \E i \in Rows :
       /\ i < idx
       /\ Reported(i) /\ ~Errored(i)
       /\ sent_count >= 1
       /\ ThreadSet(i)
       /\ Blank(IdOf(df[i], "RfcMessageId"))

\* ------------------------------------------------------------------------
\* C23
\* ------------------------------------------------------------------------
\* C23: once the row loop of an invocation has visited every row, the count
\* of sent or drafted rows, the number of skipped rows and the number of
\* errors add up to the number of rows, and the error list has one entry
\* for each errored row.
C23_SummaryAccounting ==
  (pc \in {"row", "done", "crashed", "interrupted"} /\ idx > Len(df)) =>
     /\ sent_count + Len(skipped) + Len(errors) = Len(df)
     /\ Len(errors) = Cardinality({i \in Rows : Errored(i)})

\* ------------------------------------------------------------------------
\* C24
\* ------------------------------------------------------------------------
\* C24: ui_locked is True exactly while a send invocation of app.py is
\* between its start and its end: it is False after the summary and after
\* the fatal-error handler, and a script run that starts afterwards finds
\* it False.
C24_LockReleased ==
  /\ ui_locked <=> pc \in {"row", "delay", "fetch"}
  /\ pc \in {"idle", "done", "interrupted"} => ~ui_locked

C24_Witness ==
  /\ run >= 1
  /\ pc = "idle"
  /\ last_saved.saved
  /\ ~ui_locked

\* ------------------------------------------------------------------------
\* C25
\* ------------------------------------------------------------------------
\* C25: the step that counts a row as sent or drafted erases no identifier
\* of that row: afterwards ThreadId is the thread id the provider returned
\* when that is non-empty and the previous ThreadId otherwise, and
\* RfcMessageId is the fetched Message-ID when one was found and the
\* previous RfcMessageId otherwise.
C25_SuccessKeepsIdentifiers ==
  [][sent_count' = sent_count + 1 =>
       LET oldT == IdOf(df[idx], "ThreadId")
           newT == IdOf(df'[idx], "ThreadId")
           oldR == IdOf(df[idx], "RfcMessageId")
           newR == IdOf(df'[idx], "RfcMessageId")
       IN IF page = "app"
            THEN /\ newT = PyOr(StrCell(sent_msg.threadId), oldT)
                 /\ newR = PyOr(message_id_header, oldR)
            ELSE \* progress.py fetches no Message-ID header
                 /\ newT = StrCell(t1) \/ SameId(newT, oldT)
                 /\ SameId(newR, oldR)]_vars

=============================================================================
